---- MODULE Spec2Model ----
(***************************************************************************)
(* The passphrase-based file encryption core of the converter             *)
(* (encryptFile / decryptFile and the deriveKey helper they share), the   *)
(* loader page's own decryption routines (tryDecrypt, decryptDatFile) and *)
(* the converter page's handleSubmit.                                     *)
(*                                                                         *)
(* A buffer is a sequence of cells.  A plain byte b is the cell <<b>>.    *)
(* The platform primitives are modelled symbolically: PBKDF2 returns the  *)
(* term of its inputs (no two inputs collide), AES-GCM's ciphertext is    *)
(* the plaintext plus a keystream byte, and each of the 16 tag bytes is   *)
(* the term <<j, key, iv, ciphertext>>, so a tag verifies exactly when    *)
(* it was computed over the same key, nonce and ciphertext.  The secure   *)
(* random source never returns a value it returned before.                *)
(***************************************************************************)
EXTENDS Integers, Sequences, FiniteSets, TLC

VARIABLES encrypted, rngDrawn, sealLog, page, quiz, ui, calls

vars == <<encrypted, rngDrawn, sealLog, page, quiz, ui, calls>>

----------------------------------------------------------------------------
(* Program constants *)

SALT_SIZE == 16
IV_SIZE == 12
KEY_LENGTH == 256
PBKDF2_ITERATIONS == 100000
TAG_SIZE == 16

(* The constants of the loader page (upload-quiz), first version *)
Loader_SALT_SIZE == 16
Loader_IV_SIZE == 12
Loader_PBKDF2_ITERATIONS == 100000
Loader_KEY_LENGTH == 256

(* The constants of the loader page, second version (TAG_SIZE is above) *)
Dat_SALT_SIZE == 16
Dat_IV_SIZE == 12
Dat_PBKDF2_ITERATIONS == 100000
Dat_KEY_LENGTH == 256

(* The constants of the loader page, third version *)
Dat2_PBKDF2_ITERATIONS == 100000
Dat2_KEY_LENGTH == 256

(* Bounds of the model *)

MaxLen == 1

Min(a, b) == IF a < b THEN a ELSE b

----------------------------------------------------------------------------
(* Inputs *)

(* File contents: one buffer of each length up to MaxLen *)
Plaintexts == {[i \in 1..k |-> <<(37 * i) % 256>>] : k \in 0..MaxLen}

(* Passphrases as UTF-16 code units: the empty string, "a", an unpaired high *)
(* surrogate, an unpaired low surrogate, and the surrogate pair of U+10000   *)
Passphrases == {<<>>, <<97>>, <<55296>>, <<56320>>, <<55296, 56320>>}

(* The seeds of the values the secure random source can return *)
RandomSeeds == {1, 2}

(* Call slots: invocations that can be in flight at once *)
Callers == {1, 2}

----------------------------------------------------------------------------
(* TextEncoder.encode: UTF-16 code units to UTF-8 bytes.  A surrogate pair *)
(* is one code point; an unpaired surrogate is encoded as U+FFFD.          *)

IsHighSurrogate(u) == u >= 55296 /\ u <= 56319
IsLowSurrogate(u) == u >= 56320 /\ u <= 57343

Utf8Bytes(cp) ==
  IF cp < 128 THEN <<cp>>
  ELSE IF cp < 2048 THEN <<192 + (cp \div 64), 128 + (cp % 64)>>
  ELSE IF cp < 65536
    THEN <<224 + (cp \div 4096), 128 + ((cp \div 64) % 64), 128 + (cp % 64)>>
  ELSE <<240 + (cp \div 262144), 128 + ((cp \div 4096) % 64),
         128 + ((cp \div 64) % 64), 128 + (cp % 64)>>

RECURSIVE Utf8From(_, _)
Utf8From(s, i) ==
  IF i > Len(s) THEN <<>>
  ELSE IF IsHighSurrogate(s[i]) /\ i < Len(s) /\ IsLowSurrogate(s[i + 1])
    THEN Utf8Bytes(65536 + (s[i] - 55296) * 1024 + (s[i + 1] - 56320))
           \o Utf8From(s, i + 2)
  ELSE IF IsHighSurrogate(s[i]) \/ IsLowSurrogate(s[i])
    THEN Utf8Bytes(65533) \o Utf8From(s, i + 1)
  ELSE Utf8Bytes(s[i]) \o Utf8From(s, i + 1)

TextEncoderEncode(s) == Utf8From(s, 1)

----------------------------------------------------------------------------
(* window.crypto.subtle *)

NoKey == [pw |-> <<>>, salt |-> <<>>, iterations |-> 0, hash |-> "", length |-> 0]

Pbkdf2(passBuf, salt, iterations, hash, length) ==
  [pw |-> passBuf, salt |-> salt, iterations |-> iterations,
   hash |-> hash, length |-> length]

RECURSIVE SumInts(_)
SumInts(s) == IF s = <<>> THEN 0 ELSE (s[1] + SumInts(Tail(s))) % 256

RECURSIVE SumCells(_)
SumCells(s) == IF s = <<>> THEN 0 ELSE (s[1][1] + SumCells(Tail(s))) % 256

KeyStream(key, iv, i) ==
  (SumInts(key.pw) + SumCells(key.salt) + SumCells(iv) + i) % 256

AesGcmTag(key, iv, ct) == [j \in 1..TAG_SIZE |-> <<j, key, iv, ct>>]

AesGcmEncrypt(key, iv, data) ==
  LET ct == [i \in 1..Len(data) |->
               <<(data[i][1] + KeyStream(key, iv, i)) % 256>>]
  IN ct \o AesGcmTag(key, iv, ct)

AesGcmDecrypt(key, iv, data) ==
  IF Len(data) < TAG_SIZE
    THEN [ok |-> FALSE, data |-> <<>>]
    ELSE LET n == Len(data) - TAG_SIZE
             ct == SubSeq(data, 1, n)
             tag == SubSeq(data, n + 1, Len(data))
         IN IF tag = AesGcmTag(key, iv, ct)
              THEN [ok |-> TRUE,
                    data |-> [i \in 1..n |->
                       <<(ct[i][1] + 256 - KeyStream(key, iv, i)) % 256>>]]
              ELSE [ok |-> FALSE, data |-> <<>>]

(* The n-byte values the secure random source can return *)
RandomValues(n) == {[i \in 1..n |-> <<(r * i) % 256>>] : r \in RandomSeeds}

(* Mutant: the Uint8Array is used as allocated, zero-filled *)
getRandomValuesSkipped(n, drawn) == {[i \in 1..n |-> <<0>>]}

(* window.crypto.getRandomValues(new Uint8Array(n)): any value not drawn before *)
getRandomValues(n, drawn) == RandomValues(n) \ drawn

(* ArrayBuffer.prototype.slice(begin, end), indices clamped to the length *)
Slice(buf, begin, end) == SubSeq(buf, Min(begin, Len(buf)) + 1, Min(end, Len(buf)))

----------------------------------------------------------------------------
(* deriveKey *)

(* Mutant: the passphrase bytes never reach importKey *)
deriveKeyWithoutPassphrase(passphrase, salt) ==
  Pbkdf2(<<>>, salt, PBKDF2_ITERATIONS, "SHA-256", KEY_LENGTH)

(* Mutant: PBKDF2 is given a zero-filled salt instead of the caller's *)
deriveKeyWithoutSalt(passphrase, salt) ==
  Pbkdf2(TextEncoderEncode(passphrase), [i \in 1..SALT_SIZE |-> <<0>>],
         PBKDF2_ITERATIONS, "SHA-256", KEY_LENGTH)

deriveKey(passphrase, salt) ==
  Pbkdf2(TextEncoderEncode(passphrase), salt, PBKDF2_ITERATIONS, "SHA-256", KEY_LENGTH)

----------------------------------------------------------------------------
(* encryptFile / decryptFile, step by step *)

InvalidFormatMsg ==
  "Invalid file format. The file may not be an encrypted file or it is corrupted."

DecryptionFailedMsg ==
  "Decryption failed. Please check your passphrase and ensure the file is not corrupted."

OperationError == "OperationError"

NoArgs == [key |-> NoKey, iv |-> <<>>, data |-> <<>>]

Idle ==
  [file |-> <<>>, buf |-> <<>>, salt |-> <<>>, iv |-> <<>>, content |-> <<>>,
   key |-> NoKey, cipherArgs |-> NoArgs, result |-> <<>>,
   tag |-> <<>>,
   op |-> "none", pc |-> "idle", pass |-> <<>>, error |-> "", logged |-> <<>>,
   kdfCalls |-> 0, cipherCalls |-> 0]

(* Mutant: the Blob parts in the wrong order *)
EncBlobIvFirst(salt, iv, encryptedContent) == iv \o salt \o encryptedContent

(* Mutant: the nonce left out of the Blob *)
EncBlobWithoutIv(salt, iv, encryptedContent) == salt \o encryptedContent

EncBlob(salt, iv, encryptedContent) == salt \o iv \o encryptedContent

DecSalt(fileBuffer) == Slice(fileBuffer, 0, SALT_SIZE)

DecIv(fileBuffer) == Slice(fileBuffer, SALT_SIZE, SALT_SIZE + IV_SIZE)

(* Mutant: the ciphertext slice starts right after the salt *)
DecContentFromSalt(fileBuffer) == Slice(fileBuffer, SALT_SIZE, Len(fileBuffer))

(* Mutant: the ciphertext slice starts one byte late *)
DecContentOffByOne(fileBuffer) ==
  Slice(fileBuffer, SALT_SIZE + IV_SIZE + 1, Len(fileBuffer))

DecContent(fileBuffer) == Slice(fileBuffer, SALT_SIZE + IV_SIZE, Len(fileBuffer))

(* Mutant: the length check of the two slices left out *)
DecFormatUnchecked(salt, iv) == TRUE

DecFormatOk(salt, iv) == ~(Len(salt) # SALT_SIZE \/ Len(iv) # IV_SIZE)

(* Mutant: the catch block rethrows what it caught *)
DecCatchRethrow(error) == error

DecCatch(error) == DecryptionFailedMsg

(* Mutant: the catch block also writes the passphrase to the console *)
DecLoggedWithPassphrase(error, passphrase) == <<error, passphrase>>

(* console.error("Decryption error:", error): what the catch block logs, *)
(* of the values in its scope                                            *)
DecLogged(error, passphrase) == <<error>>

(* Mutant: the catch block starts decryptFile over *)
DecCatchRetry(error) == "buffer"

(* Where the catch block leaves the call: the throw ends it *)
DecCatchNext(error) == "failed"

(* crypto.subtle.exportKey("raw", key): the key's bytes, were they exported *)
ExportKey(key) == [j \in 1..(KEY_LENGTH \div 8) |-> <<j, key>>]

(* Mutant: the exported key is appended to the encrypted content *)
EncCipherWithKey(key, iv, fileBuffer) ==
  AesGcmEncrypt(key, iv, fileBuffer) \o ExportKey(key)

(* encryptFile's subtle.encrypt({name: "AES-GCM", iv}, key, fileBuffer) *)
EncCipher(key, iv, fileBuffer) == AesGcmEncrypt(key, iv, fileBuffer)

(* Mutant: a cipher mode without authentication, the keystream only *)
DecCipherUnauthenticated(key, iv, encryptedContent) ==
  [ok |-> TRUE,
   data |-> [i \in 1..Len(encryptedContent) |->
               IF Len(encryptedContent[i]) = 1
                 THEN <<(encryptedContent[i][1] + 256 - KeyStream(key, iv, i)) % 256>>
                 ELSE <<0>>]]

(* decryptFile's subtle.decrypt({name: "AES-GCM", iv}, key, encryptedContent) *)
DecCipher(key, iv, encryptedContent) == AesGcmDecrypt(key, iv, encryptedContent)

InFlight == {c \in Callers : calls[c].pc # "idle"}

(* Mutant: salt, iv and key kept in module-level variables, which the call *)
(* started last has overwritten                                            *)
LocalsShared(c) ==
  LET encs == {d \in InFlight : calls[d].op = "enc" /\ calls[d].key # NoKey}
  IN IF encs = {} THEN calls[c]
     ELSE calls[CHOOSE d \in encs : \A e \in encs : d >= e]

(* The const bindings of one invocation: salt, iv, key *)
Locals(c) == calls[c]

(* One caller that awaits each call before it makes the next *)
FreeSlot(c) == c = 1 /\ InFlight = {}

(* The converter page before any submission *)
PageIdle ==
  [isProcessing |-> FALSE, operation |-> "encrypt", pc |-> "idle",
   toasts |-> <<>>, downloads |-> <<>>]

(* sessionStorage without 'quizData'; a component state that is null *)
NoData == [kind |-> "none", questions |-> <<>>, rows |-> <<>>]

(* The quiz pages before anything was stored or loaded: sessionStorage's    *)
(* 'quizData', the route, the preview page's and the test panel's quizData, *)
(* the test panel's currentQuestionIndex (index in the state, shown in the  *)
(* render the handlers close over) and answers, and the toasts shown        *)
QuizIdle ==
  [storage |-> NoData, route |-> "/", pc |-> "ready", version |-> "P1",
   previewData |-> NoData, quizData |-> NoData, index |-> 0, shown |-> 0,
   answers |-> {}, toasts |-> <<>>]

(* No handler of the other pages running *)
UiIdle ==
  [handler |-> "none", operation |-> "", pc |-> "idle", busy |-> FALSE,
   file |-> <<>>, pass |-> <<>>, toasts |-> <<>>, downloads |-> <<>>,
   error |-> ""]

Init ==
  /\ calls = [c \in Callers |-> Idle]
  /\ encrypted = {}
  /\ rngDrawn = {}
  /\ sealLog = {}
  /\ page = PageIdle
  /\ quiz = QuizIdle
  /\ ui = UiIdle

(* encryptFile, lines 75-78: both draws, then deriveKey up to importKey *)
StartEncrypt(c, files, passphrases) ==
  \E file \in files, pass \in passphrases :
    \E s \in getRandomValues(SALT_SIZE, rngDrawn),
       v \in getRandomValues(IV_SIZE, rngDrawn) :
      /\ calls' = [calls EXCEPT ![c] =
           [Idle EXCEPT !.op = "enc", !.pc = "import", !.file = file,
                        !.pass = pass, !.salt = s, !.iv = v,
                        !.kdfCalls = 1]]
      /\ rngDrawn' = rngDrawn \cup {s, v}

CallEncrypt(c) ==
  /\ FreeSlot(c)
  /\ StartEncrypt(c, Plaintexts, Passphrases)
  /\ UNCHANGED <<encrypted, sealLog, page, quiz, ui>>

(* deriveKey: importKey resolved, subtle.deriveKey called *)
ImportKeyResolved(c) ==
  /\ calls[c].pc = "import"
  /\ calls' = [calls EXCEPT ![c].pc = "derive"]
  /\ UNCHANGED <<encrypted, rngDrawn, sealLog, page, quiz, ui>>

(* deriveKey resolved: encryptFile goes on to file.arrayBuffer(), *)
(* decryptFile to subtle.decrypt                                   *)
DeriveKeyResolved(c) ==
  /\ calls[c].op \in {"enc", "dec"}
  /\ calls[c].pc = "derive"
  /\ LET k == deriveKey(calls[c].pass, calls[c].salt)
     IN IF calls[c].op = "enc"
          THEN calls' = [calls EXCEPT ![c].key = k, ![c].pc = "buffer"]
          ELSE calls' = [calls EXCEPT ![c].key = k, ![c].pc = "cipher",
                           ![c].cipherCalls = @ + 1,
                           ![c].cipherArgs =
                             [key |-> k, iv |-> calls[c].iv,
                              data |-> calls[c].content]]
  /\ UNCHANGED <<encrypted, rngDrawn, sealLog, page, quiz, ui>>

(* encryptFile, lines 80-89: the file's bytes arrive, subtle.encrypt called *)
EncBufferResolved(c) ==
  /\ calls[c].op = "enc"
  /\ calls[c].pc = "buffer"
  /\ calls' = [calls EXCEPT ![c].buf = calls[c].file, ![c].pc = "cipher",
                 ![c].cipherCalls = @ + 1,
                 ![c].cipherArgs =
                   [key |-> Locals(c).key, iv |-> Locals(c).iv,
                    data |-> calls[c].file]]
  /\ UNCHANGED <<encrypted, rngDrawn, sealLog, page, quiz, ui>>

(* encryptFile, lines 82-92: subtle.encrypt resolved, the Blob is returned *)
EncCipherResolved(c) ==
  /\ calls[c].op = "enc"
  /\ calls[c].pc = "cipher"
  /\ LET a == calls[c].cipherArgs
         encryptedContent == EncCipher(a.key, a.iv, a.data)
     IN calls' = [calls EXCEPT ![c].content = encryptedContent,
                    ![c].result = EncBlob(Locals(c).salt, Locals(c).iv, encryptedContent),
                    ![c].pc = "done"]
  /\ UNCHANGED <<encrypted, rngDrawn, sealLog, page, quiz, ui>>

(* encryptFile, lines 82-89: subtle.encrypt rejects; nothing in encryptFile *)
(* catches it                                                              *)
EncCipherRejected(c) ==
  /\ calls[c].op = "enc"
  /\ calls[c].pc = "cipher"
  /\ calls' = [calls EXCEPT ![c].error = OperationError, ![c].pc = "failed"]
  /\ UNCHANGED <<encrypted, rngDrawn, sealLog, page, quiz, ui>>

(* What a caller can hand to decryptFile: a container encryptFile returned, *)
(* one of its bytes altered, or a proper prefix of it                       *)
Flip(cell) == IF Len(cell) = 1 THEN <<(cell[1] + 1) % 256>> ELSE <<0>>

Tamper(blob, i) == [blob EXCEPT ![i] = Flip(blob[i])]

Prefix(blob, n) == SubSeq(blob, 1, n)

DecryptInputs ==
  UNION {{[file |-> e.blob, pass |-> p] : p \in Passphrases}
           \cup {[file |-> Tamper(e.blob, i), pass |-> e.pass] : i \in 1..Len(e.blob)}
           \cup {[file |-> Prefix(e.blob, n), pass |-> e.pass] : n \in 0..(Len(e.blob) - 1)}
         : e \in encrypted}

(* decryptFile, line 100: file.arrayBuffer() awaited *)
StartDecrypt(c, inputs) ==
  \E in \in inputs :
    calls' = [calls EXCEPT ![c] =
      [Idle EXCEPT !.op = "dec", !.pc = "buffer", !.file = in.file,
                   !.pass = in.pass]]

CallDecrypt(c) ==
  /\ FreeSlot(c)
  /\ StartDecrypt(c, DecryptInputs)
  /\ UNCHANGED <<encrypted, rngDrawn, sealLog, page, quiz, ui>>

(* decryptFile, lines 100-112: slices, the format check, deriveKey up to *)
(* importKey; a failed check is thrown into the catch of lines 125-130   *)
DecBufferResolved(c) ==
  /\ calls[c].op = "dec"
  /\ calls[c].pc = "buffer"
  /\ LET fileBuffer == calls[c].file
         salt == DecSalt(fileBuffer)
         iv == DecIv(fileBuffer)
         encryptedContent == DecContent(fileBuffer)
     IN IF DecFormatOk(salt, iv)
          THEN calls' = [calls EXCEPT ![c].buf = fileBuffer, ![c].salt = salt,
                           ![c].iv = iv, ![c].content = encryptedContent,
                           ![c].kdfCalls = @ + 1, ![c].pc = "import"]
          ELSE calls' = [calls EXCEPT ![c].buf = fileBuffer, ![c].salt = salt,
                           ![c].iv = iv, ![c].content = encryptedContent,
                           ![c].logged =
                             @ \o DecLogged(InvalidFormatMsg, calls[c].pass),
                           ![c].error = DecCatch(InvalidFormatMsg),
                           ![c].pc = DecCatchNext(InvalidFormatMsg)]
  /\ UNCHANGED <<encrypted, rngDrawn, sealLog, page, quiz, ui>>

(* decryptFile, lines 114-130: subtle.decrypt settles; the plaintext Blob is *)
(* returned, or the rejection is caught, logged and replaced                 *)
DecCipherResolved(c) ==
  /\ calls[c].op = "dec"
  /\ calls[c].pc = "cipher"
  /\ LET a == calls[c].cipherArgs
         r == DecCipher(a.key, a.iv, a.data)
     IN IF r.ok
          THEN calls' = [calls EXCEPT ![c].result = r.data, ![c].pc = "done"]
          ELSE calls' = [calls EXCEPT
                           ![c].logged = @ \o DecLogged(OperationError, calls[c].pass),
                           ![c].error = DecCatch(OperationError),
                           ![c].pc = DecCatchNext(OperationError)]
  /\ UNCHANGED <<encrypted, rngDrawn, sealLog, page, quiz, ui>>

(* The promise settles: the call's locals are gone, the Blob or the error is *)
(* the caller's                                                             *)
Settle(c) ==
  /\ calls[c].pc \in {"done", "failed"}
  /\ calls' = [calls EXCEPT ![c] = Idle]
  /\ IF calls[c].op = "enc" /\ calls[c].pc = "done"
       THEN /\ encrypted' = encrypted \cup
                 {[file |-> calls[c].file, pass |-> calls[c].pass,
                   blob |-> calls[c].result]}
            /\ sealLog' = sealLog \cup
                 {[key |-> calls[c].cipherArgs.key, iv |-> calls[c].cipherArgs.iv]}
       ELSE UNCHANGED <<encrypted, sealLog>>
  /\ UNCHANGED rngDrawn

(* The caller's await settles *)
Return(c) == Settle(c) /\ UNCHANGED <<page, quiz, ui>>

Next ==
  \E c \in Callers :
    \/ CallEncrypt(c)
    \/ ImportKeyResolved(c)
    \/ DeriveKeyResolved(c)
    \/ EncBufferResolved(c)
    \/ EncCipherResolved(c)
    \/ CallDecrypt(c)
    \/ DecBufferResolved(c)
    \/ DecCipherResolved(c)
    \/ Return(c)

Spec == Init /\ [][Next]_vars

----------------------------------------------------------------------------
(* The loader page's own decryption routines: tryDecrypt of its first        *)
(* version, decryptDatFile of its second and third (the two are the same     *)
(* text), each with the page's own copy of deriveKey                         *)

TryTooSmallMsg == "File too small to contain salt + iv + content"

DatTooSmallMsg == "File too small to contain salt + iv + ciphertext + tag"

(* Mutant: a copy of deriveKey with its own iteration count *)
deriveKeyLoaderFewerIterations(passphrase, salt) ==
  Pbkdf2(TextEncoderEncode(passphrase), salt, 10000, "SHA-256", Loader_KEY_LENGTH)

(* deriveKey of the first version; the key is not extractable and may only   *)
(* decrypt, its bytes are those PBKDF2 gives                                 *)
deriveKeyLoader(passphrase, salt) ==
  Pbkdf2(TextEncoderEncode(passphrase), salt, Loader_PBKDF2_ITERATIONS,
         "SHA-256", Loader_KEY_LENGTH)

(* deriveKey of the second version *)
deriveKeyDat(passphrase, salt) ==
  Pbkdf2(TextEncoderEncode(passphrase), salt, Dat_PBKDF2_ITERATIONS,
         "SHA-256", Dat_KEY_LENGTH)

(* deriveKey of the third version *)
deriveKeyDat2(passphrase, salt) ==
  Pbkdf2(TextEncoderEncode(passphrase), salt, Dat2_PBKDF2_ITERATIONS,
         "SHA-256", Dat2_KEY_LENGTH)

TryFormatOk(u8) == ~(Len(u8) < Loader_SALT_SIZE + Loader_IV_SIZE + 1)

TrySalt(u8) == Slice(u8, 0, Loader_SALT_SIZE)

TryIv(u8) == Slice(u8, Loader_SALT_SIZE, Loader_SALT_SIZE + Loader_IV_SIZE)

TryEncrypted(u8) == Slice(u8, Loader_SALT_SIZE + Loader_IV_SIZE, Len(u8))

TryCipher(key, iv, encrypted_) == AesGcmDecrypt(key, iv, encrypted_)

DatFormatOk(u8) == ~(Len(u8) < Dat_SALT_SIZE + Dat_IV_SIZE + TAG_SIZE + 1)

DatSalt(u8) == Slice(u8, 0, Dat_SALT_SIZE)

DatIv(u8) == Slice(u8, Dat_SALT_SIZE, Dat_SALT_SIZE + Dat_IV_SIZE)

(* Mutant: the ciphertext slice ends one byte early *)
DatCiphertextShort(u8) ==
  Slice(u8, Dat_SALT_SIZE + Dat_IV_SIZE, Len(u8) - TAG_SIZE - 1)

DatCiphertext(u8) == Slice(u8, Dat_SALT_SIZE + Dat_IV_SIZE, Len(u8) - TAG_SIZE)

DatTag(u8) == Slice(u8, Len(u8) - TAG_SIZE, Len(u8))

(* new Uint8Array(ciphertext.length + tag.length), then the two set() calls *)
DatCtWithTag(ciphertext, tag) ==
  [i \in 1..(Len(ciphertext) + Len(tag)) |->
     IF i <= Len(ciphertext) THEN ciphertext[i] ELSE tag[i - Len(ciphertext)]]

DatCipher(key, iv, ctWithTag) == AesGcmDecrypt(key, iv, ctWithTag)

(* The loader page is given one file the converter page produced *)
EncryptOnce(c) == encrypted = {} /\ CallEncrypt(c)

(* tryDecrypt up to importKey inside deriveKey: the length check throws, or *)
(* the three slices are taken                                               *)
StartTryDecrypt(c, inputs) ==
  \E in \in inputs :
       LET u8 == in.file
           started == [Idle EXCEPT !.op = "try", !.file = in.file, !.buf = u8,
                                   !.pass = in.pass]
       IN IF TryFormatOk(u8)
            THEN calls' = [calls EXCEPT ![c] =
                   [started EXCEPT !.salt = TrySalt(u8), !.iv = TryIv(u8),
                                   !.content = TryEncrypted(u8),
                                   !.kdfCalls = 1, !.pc = "import"]]
            ELSE calls' = [calls EXCEPT ![c] =
                   [started EXCEPT !.error = TryTooSmallMsg, !.pc = "failed"]]

CallTryDecrypt(c) ==
  /\ FreeSlot(c)
  /\ StartTryDecrypt(c, DecryptInputs)
  /\ UNCHANGED <<encrypted, rngDrawn, sealLog, page, quiz, ui>>

(* tryDecrypt: deriveKey resolved, subtle.decrypt called *)
TryDeriveKeyResolved(c) ==
  /\ calls[c].op = "try"
  /\ calls[c].pc = "derive"
  /\ LET k == deriveKeyLoader(calls[c].pass, calls[c].salt)
     IN calls' = [calls EXCEPT ![c].key = k, ![c].pc = "cipher",
                    ![c].cipherCalls = @ + 1,
                    ![c].cipherArgs =
                      [key |-> k, iv |-> calls[c].iv, data |-> calls[c].content]]
  /\ UNCHANGED <<encrypted, rngDrawn, sealLog, page, quiz, ui>>

(* tryDecrypt: subtle.decrypt settles; its rejection is not caught here *)
TryCipherResolved(c) ==
  /\ calls[c].op = "try"
  /\ calls[c].pc = "cipher"
  /\ LET a == calls[c].cipherArgs
         r == TryCipher(a.key, a.iv, a.data)
     IN IF r.ok
          THEN calls' = [calls EXCEPT ![c].result = r.data, ![c].pc = "done"]
          ELSE calls' = [calls EXCEPT ![c].error = OperationError,
                           ![c].pc = "failed"]
  /\ UNCHANGED <<encrypted, rngDrawn, sealLog, page, quiz, ui>>

(* decryptDatFile up to importKey inside deriveKey: the length check throws, *)
(* or salt, iv, ciphertext and tag are sliced                                *)
StartDecryptDat(c, inputs) ==
  \E in \in inputs :
       LET u8 == in.file
           started == [Idle EXCEPT !.op = "dat", !.file = in.file, !.buf = u8,
                                   !.pass = in.pass]
       IN IF DatFormatOk(u8)
            THEN calls' = [calls EXCEPT ![c] =
                   [started EXCEPT !.salt = DatSalt(u8), !.iv = DatIv(u8),
                                   !.content = DatCiphertext(u8),
                                   !.tag = DatTag(u8),
                                   !.kdfCalls = 1, !.pc = "import"]]
            ELSE calls' = [calls EXCEPT ![c] =
                   [started EXCEPT !.error = DatTooSmallMsg, !.pc = "failed"]]

CallDecryptDat(c) ==
  /\ FreeSlot(c)
  /\ StartDecryptDat(c, DecryptInputs)
  /\ UNCHANGED <<encrypted, rngDrawn, sealLog, page, quiz, ui>>

(* decryptDatFile: deriveKey resolved, ciphertext and tag joined again, *)
(* subtle.decrypt called                                                *)
DatDeriveKeyResolved(c) ==
  /\ calls[c].op = "dat"
  /\ calls[c].pc = "derive"
  /\ LET k == deriveKeyDat(calls[c].pass, calls[c].salt)
         ctWithTag == DatCtWithTag(calls[c].content, calls[c].tag)
     IN calls' = [calls EXCEPT ![c].key = k, ![c].pc = "cipher",
                    ![c].cipherCalls = @ + 1,
                    ![c].cipherArgs =
                      [key |-> k, iv |-> calls[c].iv, data |-> ctWithTag]]
  /\ UNCHANGED <<encrypted, rngDrawn, sealLog, page, quiz, ui>>

(* decryptDatFile: subtle.decrypt settles; its rejection is not caught here *)
DatCipherResolved(c) ==
  /\ calls[c].op = "dat"
  /\ calls[c].pc = "cipher"
  /\ LET a == calls[c].cipherArgs
         r == DatCipher(a.key, a.iv, a.data)
     IN IF r.ok
          THEN calls' = [calls EXCEPT ![c].result = r.data, ![c].pc = "done"]
          ELSE calls' = [calls EXCEPT ![c].error = OperationError,
                           ![c].pc = "failed"]
  /\ UNCHANGED <<encrypted, rngDrawn, sealLog, page, quiz, ui>>

NextPaths ==
  \E c \in Callers :
    \/ EncryptOnce(c)
    \/ ImportKeyResolved(c)
    \/ DeriveKeyResolved(c)
    \/ EncBufferResolved(c)
    \/ EncCipherResolved(c)
    \/ CallDecrypt(c)
    \/ DecBufferResolved(c)
    \/ DecCipherResolved(c)
    \/ CallTryDecrypt(c)
    \/ TryDeriveKeyResolved(c)
    \/ TryCipherResolved(c)
    \/ CallDecryptDat(c)
    \/ DatDeriveKeyResolved(c)
    \/ DatCipherResolved(c)
    \/ Return(c)

SpecPaths == Init /\ [][NextPaths]_vars

----------------------------------------------------------------------------
(* Several encryptFile and decryptFile calls in flight at once *)

ConcPassphrases == {<<97>>, <<55296, 56320>>}

(* Containers returned so far, with either passphrase, with the last byte *)
(* altered, and cut to ten bytes                                          *)
ConcInputs ==
  UNION {{[file |-> e.blob, pass |-> p] : p \in ConcPassphrases}
           \cup {[file |-> Tamper(e.blob, Len(e.blob)), pass |-> e.pass],
                 [file |-> Prefix(e.blob, 10), pass |-> e.pass]}
         : e \in encrypted}

ConcEncrypt(c) ==
  /\ calls[c].pc = "idle"
  /\ StartEncrypt(c, Plaintexts, ConcPassphrases)
  /\ UNCHANGED <<encrypted, sealLog, page, quiz, ui>>

ConcDecrypt(c) ==
  /\ calls[c].pc = "idle"
  /\ StartDecrypt(c, ConcInputs)
  /\ UNCHANGED <<encrypted, rngDrawn, sealLog, page, quiz, ui>>

NextConc ==
  \E c \in Callers :
    \/ ConcEncrypt(c)
    \/ ImportKeyResolved(c)
    \/ DeriveKeyResolved(c)
    \/ EncBufferResolved(c)
    \/ EncCipherResolved(c)
    \/ ConcDecrypt(c)
    \/ DecBufferResolved(c)
    \/ DecCipherResolved(c)
    \/ Return(c)

SpecConc == Init /\ [][NextConc]_vars

----------------------------------------------------------------------------
(* deriveKey on its own, given any passphrase and a salt of any length up to *)
(* one byte more than SALT_SIZE                                              *)

KdfSalts == UNION {RandomValues(n) : n \in 0..(SALT_SIZE + 1)}

InitKdf ==
  /\ \E passphrase \in Passphrases, salt \in KdfSalts :
       calls = [c \in Callers |->
                  IF c = 1
                    THEN [Idle EXCEPT !.op = "kdf", !.pc = "import",
                                      !.pass = passphrase, !.salt = salt,
                                      !.kdfCalls = 1]
                    ELSE Idle]
  /\ encrypted = {}
  /\ rngDrawn = {}
  /\ sealLog = {}
  /\ page = PageIdle
  /\ quiz = QuizIdle
  /\ ui = UiIdle

(* subtle.deriveKey resolved: deriveKey returns the key *)
KdfResolved(c) ==
  /\ calls[c].op = "kdf"
  /\ calls[c].pc = "derive"
  /\ calls' = [calls EXCEPT ![c].key = deriveKey(calls[c].pass, calls[c].salt),
                            ![c].pc = "done"]
  /\ UNCHANGED <<encrypted, rngDrawn, sealLog, page, quiz, ui>>

NextKdf ==
  \E c \in Callers :
    \/ ImportKeyResolved(c)
    \/ KdfResolved(c)

SpecKdf == InitKdf /\ [][NextKdf]_vars

----------------------------------------------------------------------------
(* The converter page: handleSubmit.  page.toasts and page.downloads are the *)
(* toasts shown and the downloads triggered by the latest submission.        *)

Toast(variant, title, description) ==
  [variant |-> variant, title |-> title, description |-> description]

MissingInformationToast ==
  Toast("destructive", "Missing Information", "Please provide a file and a passphrase.")

(* error.message || 'An unknown error occurred.' *)
SubmitErrorDescription(message) ==
  IF message = "" THEN "An unknown error occurred." ELSE message

(* The toast of the try block after the await, or of the catch block *)
SubmitToasts(operation, ok, message) ==
  IF ok
    THEN IF operation = "encrypt"
           THEN <<Toast("default", "Encryption Successful",
                        "Your file has been securely encrypted.")>>
           ELSE <<Toast("default", "Decryption Successful",
                        "Your file has been decrypted.")>>
    ELSE <<Toast("destructive",
                 IF operation = "encrypt" THEN "Encryption Failed"
                                          ELSE "Decryption Failed",
                 SubmitErrorDescription(message))>>

(* Mutant: downloadBlob called in the finally block *)
SubmitDownloadsAlways(ok, resultBlob) == <<resultBlob>>

(* downloadBlob(resultBlob, file.name), the last statement of the try block *)
SubmitDownloads(ok, resultBlob) == IF ok THEN <<resultBlob>> ELSE <<>>

Submitting(operation) ==
  [isProcessing |-> TRUE, operation |-> operation, pc |-> "awaiting",
   toasts |-> <<>>, downloads |-> <<>>]

(* handleSubmit with no file chosen or an empty passphrase *)
SubmitMissing ==
  /\ page.pc = "idle"
  /\ \E operation \in {"encrypt", "decrypt"} :
       page' = [PageIdle EXCEPT !.operation = operation,
                                !.toasts = <<MissingInformationToast>>]
  /\ UNCHANGED <<encrypted, rngDrawn, sealLog, calls, quiz, ui>>

(* handleSubmit, operation 'encrypt', up to the await of encryptFile *)
SubmitEncrypt(c) ==
  /\ page.pc = "idle"
  /\ FreeSlot(c)
  /\ StartEncrypt(c, Plaintexts, Passphrases \ {<<>>})
  /\ page' = Submitting("encrypt")
  /\ UNCHANGED <<encrypted, sealLog, quiz, ui>>

(* handleSubmit, operation 'decrypt', up to the await of decryptFile *)
SubmitDecrypt(c) ==
  /\ page.pc = "idle"
  /\ FreeSlot(c)
  /\ StartDecrypt(c, {in \in DecryptInputs : in.pass # <<>>})
  /\ page' = Submitting("decrypt")
  /\ UNCHANGED <<encrypted, rngDrawn, sealLog, quiz, ui>>

(* handleSubmit after the await: toast and download, or the catch block's *)
(* toast; then the finally block                                          *)
SubmitSettled(c) ==
  /\ page.pc = "awaiting"
  /\ Settle(c)
  /\ LET ok == calls[c].pc = "done"
     IN page' = [page EXCEPT
                   !.toasts = SubmitToasts(page.operation, ok, calls[c].error),
                   !.downloads = SubmitDownloads(ok, calls[c].result),
                   !.isProcessing = FALSE,
                   !.pc = "idle"]
  /\ UNCHANGED <<quiz, ui>>

NextPage ==
  \/ SubmitMissing
  \/ \E c \in Callers :
       \/ SubmitEncrypt(c)
       \/ ImportKeyResolved(c)
       \/ DeriveKeyResolved(c)
       \/ EncBufferResolved(c)
       \/ EncCipherResolved(c)
       \/ SubmitDecrypt(c)
       \/ DecBufferResolved(c)
       \/ DecCipherResolved(c)
       \/ SubmitSettled(c)

SpecPage == Init /\ [][NextPage]_vars

----------------------------------------------------------------------------
(* The quiz pages: preview (three copies in the sources) and test panel *)

(* Bound on the questions of a quiz and on the data rows of a sheet *)
MaxQuestions == 3

(* What JSON.parse of the stored text can be: an object with a 'questions' *)
(* array, an object without one, an array of rows, or no JSON at all       *)
QuizObject(questions) == [kind |-> "quiz", questions |-> questions, rows |-> <<>>]
PlainObject == [kind |-> "object", questions |-> <<>>, rows |-> <<>>]
SheetArray(rows) == [kind |-> "array", questions |-> <<>>, rows |-> rows]
NotJson == [kind |-> "invalid", questions |-> <<>>, rows |-> <<>>]

(* Cells of a sheet: question texts, and header texts as a user types them *)
Texts == {"", " ", "Q"}
HeaderRows ==
  { <<"Question", "options ", "correctAnswer">>,
    <<"Question", "options ", "Correct Answer">>,
    <<"options ", "correctAnswer">> }

(* String(h).toLowerCase().trim() on the header texts *)
LowerTrim(h) ==
  CASE h = "Question" -> "question"
    [] h = "options " -> "options"
    [] h = "correctAnswer" -> "correctanswer"
    [] h = "Correct Answer" -> "correct answer"
    [] OTHER -> h

(* .replace(/\s+/g, '') on the lower-cased, trimmed header texts *)
StripSpaces(h) == IF h = "correct answer" THEN "correctanswer" ELSE h

(* String.prototype.trim() on the question texts *)
Trim(t) == IF t = " " THEN "" ELSE t

(* String(cell).split(',').map(opt => opt.trim()) on the option cells *)
SplitOptions(cell) == IF cell = "a, b" THEN <<"a", "b">> ELSE <<cell>>

(* Array.prototype.indexOf, 1-based; 0 where JavaScript gives -1 *)
IndexOf(seq, x) ==
  IF \E i \in 1..Len(seq) : seq[i] = x
    THEN CHOOSE i \in 1..Len(seq) : seq[i] = x /\ \A j \in 1..(i-1) : seq[j] # x
    ELSE 0

(* String(row[i]): a cell that is not there reads as 'undefined' *)
CellString(row, i) == IF i \in 1..Len(row) THEN row[i] ELSE "undefined"

RECURSIVE FilterSeq(_, _)
(* Array.prototype.filter with the set of elements to keep *)
FilterSeq(seq, keep) ==
  IF seq = <<>> THEN <<>>
  ELSE IF Head(seq) \in keep THEN <<Head(seq)>> \o FilterSeq(Tail(seq), keep)
  ELSE FilterSeq(Tail(seq), keep)

(* The rows of a sheet mapped to questions, before the filter *)
RowQuestions(data, questionIndex, optionsIndex, correctIndex) ==
  [i \in 1..(Len(data) - 1) |->
     [question |-> CellString(data[i + 1], questionIndex),
      options |-> SplitOptions(CellString(data[i + 1], optionsIndex)),
      correctAnswer |-> CellString(data[i + 1], correctIndex)]]

(* convertArrayToQuizData of the second copy of the preview page: NoData *)
(* stands for null                                                       *)
convertArrayToQuizDataP2(data) ==
  IF Len(data) < 2 THEN NoData
  ELSE LET headers == [i \in 1..Len(data[1]) |-> LowerTrim(data[1][i])]
           questionIndex == IndexOf(headers, "question")
           optionsIndex == IndexOf(headers, "options")
           correctIndex == IndexOf(headers, "correctanswer")
           mapped == RowQuestions(data, questionIndex, optionsIndex, correctIndex)
           questions == FilterSeq(mapped,
                          {q \in {mapped[i] : i \in 1..Len(mapped)} : q.question # ""})
       IN IF questionIndex = 0 \/ optionsIndex = 0 \/ correctIndex = 0
            THEN NoData
            ELSE QuizObject(questions)

(* convertArrayToQuizData of the latest copy of the preview page *)
convertArrayToQuizDataP3(data) ==
  IF Len(data) < 2 THEN NoData
  ELSE LET headers == [i \in 1..Len(data[1]) |-> StripSpaces(LowerTrim(data[1][i]))]
           questionIndex == IndexOf(headers, "question")
           optionsIndex == IndexOf(headers, "options")
           correctIndex == IndexOf(headers, "correctanswer")
           mapped == RowQuestions(data, questionIndex, optionsIndex, correctIndex)
           questions == FilterSeq(mapped,
                          {q \in {mapped[i] : i \in 1..Len(mapped)} :
                             q.question # "" /\ Trim(q.question) # ""})
       IN IF questionIndex = 0 \/ optionsIndex = 0 \/ correctIndex = 0
            THEN NoData
            ELSE IF Len(questions) = 0 THEN NoData
            ELSE QuizObject(questions)

(* The quiz the effect of a copy of the preview page sets; NoData where *)
(* it throws                                                            *)
PreviewAccept(version, parsedData) ==
  CASE version = "P1" ->
         IF parsedData.kind = "quiz" /\ Len(parsedData.questions) > 0
           THEN parsedData ELSE NoData
    [] version = "P2" ->
         IF parsedData.kind = "array" /\ Len(parsedData.rows) > 0
           THEN convertArrayToQuizDataP2(parsedData.rows)
         ELSE IF parsedData.kind = "quiz" /\ Len(parsedData.questions) > 0
           THEN parsedData
         ELSE NoData
    [] version = "P3" ->
         IF parsedData.kind = "quiz" THEN parsedData
         ELSE IF parsedData.kind = "array" /\ Len(parsedData.rows) > 0
           THEN convertArrayToQuizDataP3(parsedData.rows)
         ELSE NoData

(* The preview page's effect on mount *)
PreviewLoad ==
  /\ quiz.route = "/preview" /\ quiz.pc = "mount"
  /\ IF quiz.storage = NoData
       THEN quiz' = [quiz EXCEPT !.pc = "ready"]
       ELSE LET accepted == IF quiz.storage.kind = "invalid" THEN NoData
                            ELSE PreviewAccept(quiz.version, quiz.storage)
            IN IF accepted # NoData
                 THEN quiz' = [quiz EXCEPT !.previewData = accepted, !.pc = "ready"]
                 ELSE quiz' = [quiz EXCEPT
                                 !.toasts = Append(@, "Failed to Load Preview"),
                                 !.storage = NoData,
                                 !.route = "/upload-quiz",
                                 !.pc = "mount"]
  /\ UNCHANGED <<encrypted, rngDrawn, sealLog, page, ui, calls>>

(* handleStartTest; the first copy leaves sessionStorage as it is *)
handleStartTest ==
  /\ quiz.route = "/preview" /\ quiz.pc = "ready"
  /\ IF quiz.previewData # NoData
       THEN quiz' = [quiz EXCEPT
                       !.storage = IF quiz.version = "P1" THEN @ ELSE quiz.previewData,
                       !.route = "/test-panel",
                       !.pc = "mount"]
       ELSE quiz' = [quiz EXCEPT
                       !.toasts = Append(@, "No Quiz Data"),
                       !.route = IF quiz.version = "P3" THEN "/upload-quiz" ELSE "/",
                       !.pc = "mount"]
  /\ UNCHANGED <<encrypted, rngDrawn, sealLog, page, ui, calls>>

InvalidQuizMsg == "Invalid quiz data format. The 'questions' array is missing or empty."

(* The test panel's validation of the parsed 'quizData' *)
PanelAccepts(parsedData) ==
  parsedData.kind = "quiz" /\ Len(parsedData.questions) > 0

(* The test panel's effect on mount *)
PanelLoad ==
  /\ quiz.route = "/test-panel" /\ quiz.pc = "mount"
  /\ IF quiz.storage = NoData
       THEN quiz' = [quiz EXCEPT !.toasts = Append(@, "No Quiz Data"),
                                 !.route = "/", !.pc = "mount"]
       ELSE IF quiz.storage.kind # "invalid" /\ PanelAccepts(quiz.storage)
         THEN quiz' = [quiz EXCEPT !.quizData = quiz.storage, !.pc = "ready"]
         ELSE quiz' = [quiz EXCEPT
                         !.toasts = Append(@, IF quiz.storage.kind = "invalid"
                                                THEN "Unexpected token"
                                                ELSE InvalidQuizMsg),
                         !.route = "/", !.pc = "mount"]
  /\ UNCHANGED <<encrypted, rngDrawn, sealLog, page, ui, calls>>

(* The test panel shows its controls once the quiz is loaded *)
PanelShown == quiz.route = "/test-panel" /\ quiz.pc = "ready" /\ quiz.quizData # NoData

Answers == {"A", "B"}

(* setAnswers(prev => ({...prev, [currentQuestionIndex]: value})) *)
SetAnswer(prev, key, value) ==
  {a \in prev : a.key # key} \cup {[key |-> key, value |-> value]}

(* handleAnswerChange, with the currentQuestionIndex of the render it closes over *)
handleAnswerChange(value) ==
  /\ PanelShown
  /\ quiz' = [quiz EXCEPT !.answers = SetAnswer(@, quiz.shown, value)]
  /\ UNCHANGED <<encrypted, rngDrawn, sealLog, page, ui, calls>>

(* The last index handleNext may leave, 0-based *)
NextLimitOffByOne(questions) == Len(questions)
NextLimit(questions) == Len(questions) - 1

handleNext ==
  /\ PanelShown
  /\ quiz' = IF quiz.shown < NextLimit(quiz.quizData.questions)
               THEN [quiz EXCEPT !.index = quiz.shown + 1]
               ELSE quiz
  /\ UNCHANGED <<encrypted, rngDrawn, sealLog, page, ui, calls>>

handlePrev ==
  /\ PanelShown
  /\ quiz' = IF quiz.shown > 0
               THEN [quiz EXCEPT !.index = quiz.shown - 1]
               ELSE quiz
  /\ UNCHANGED <<encrypted, rngDrawn, sealLog, page, ui, calls>>

(* React renders the test panel again with the state's currentQuestionIndex *)
Render ==
  /\ PanelShown
  /\ quiz.shown # quiz.index
  /\ quiz' = [quiz EXCEPT !.shown = quiz.index]
  /\ UNCHANGED <<encrypted, rngDrawn, sealLog, page, ui, calls>>

(* The texts 'quizData' can hold when the preview page mounts: what the   *)
(* converter page and the upload pages stored there, or nothing           *)
SeqsUpTo(S, n) == UNION {[1..k -> S] : k \in 0..n}

SampleQuestion == [question |-> "Q", options |-> <<"a", "b">>, correctAnswer |-> "a"]

StoredValues ==
  {NoData, PlainObject, NotJson}
  \cup {QuizObject([i \in 1..k |-> SampleQuestion]) : k \in 0..MaxQuestions}
  \cup {SheetArray(<<h>> \o [i \in 1..Len(r) |-> <<r[i], "a, b", "a">>]) :
          h \in HeaderRows, r \in SeqsUpTo(Texts, MaxQuestions)}

InitQuiz ==
  /\ calls = [c \in Callers |-> Idle]
  /\ encrypted = {}
  /\ rngDrawn = {}
  /\ sealLog = {}
  /\ page = PageIdle
  /\ ui = UiIdle
  /\ \E v \in StoredValues : \E version \in {"P1", "P2", "P3"} :
       quiz = [QuizIdle EXCEPT !.storage = v, !.route = "/preview",
                               !.pc = "mount", !.version = version]

NextQuiz ==
  \/ PreviewLoad
  \/ handleStartTest
  \/ PanelLoad
  \/ \E value \in Answers : handleAnswerChange(value)
  \/ handleNext
  \/ handlePrev
  \/ Render

SpecQuiz == InitQuiz /\ [][NextQuiz]_vars

----------------------------------------------------------------------------
(* The page handlers that call encryptFile, decryptFile, tryDecrypt or *)
(* decryptDatFile                                                      *)

(* Passphrases typed into a page: none, one blank, "a" *)
HandlerPassphrases == {<<>>, <<32>>, <<97>>}

(* The byte cells of a text given as its UTF-8 bytes *)
Cells(bytes) == [i \in 1..Len(bytes) |-> <<bytes[i]>>]

RECURSIVE AnswerEntries(_, _)
(* The members of the answers object from key k on, keys ascending, as *)
(* JSON.stringify(..., null, 2) writes them                            *)
AnswerEntries(answers, k) ==
  IF \A a \in answers : a.key < k THEN <<>>
  ELSE IF \E a \in answers : a.key = k
    THEN (IF \E a \in answers : a.key < k THEN <<44>> ELSE <<>>)
         \o <<10, 32, 32, 32, 32, 34>> \o <<48 + k>> \o <<34, 58, 32, 34>>
         \o <<IF (CHOOSE a \in answers : a.key = k).value = "A" THEN 65 ELSE 66>>
         \o <<34>>
         \o AnswerEntries(answers, k + 1)
    ELSE AnswerEntries(answers, k + 1)

(* JSON.stringify(newSubmission, null, 2) as UTF-8 bytes, submittedAt being *)
(* 2026-01-01T00:00:00.000Z                                                *)
SubmissionJson(answers) ==
  <<123, 10, 32, 32, 34, 97, 110, 115, 119, 101, 114, 115, 34, 58, 32>>
  \o (IF answers = {} THEN <<123, 125>>
      ELSE <<123>> \o AnswerEntries(answers, 0) \o <<10, 32, 32, 125>>)
  \o <<44, 10, 32, 32, 34, 115, 117, 98, 109, 105, 116, 116, 101, 100, 65, 116, 34, 58, 32, 34>> \o <<50, 48, 50, 54, 45, 48, 49, 45, 48, 49, 84, 48, 48, 58, 48, 48, 58, 48, 48, 46, 48, 48, 48, 90>>
  \o <<34, 10, 125>>

(* The submission.json File handleSubmit encrypts *)
SubmissionFile(answers) == Cells(SubmissionJson(answers))

(* The answers objects of a quiz of n questions *)
AnswerSets(n) ==
  {s \in SUBSET [key : 0..(n - 1), value : Answers] :
     \A a, b \in s : a.key = b.key => a = b}

(* JSON.parse of a decrypted text: the texts the pages meet are submission *)
(* files, which parse to an object, and the plain files, which are no JSON *)
(* and make it throw                                                       *)
JsonParses(content) ==
  \E answers \in AnswerSets(MaxQuestions) : content = SubmissionFile(answers)

(* looksBinaryText on the decoded bytes: a control character other than *)
(* tab, line feed and carriage return                                   *)
looksBinaryText(buffer) ==
  \E i \in 1..Len(buffer) :
    /\ Len(buffer[i]) = 1
    /\ buffer[i][1] \in (0..8) \cup {11, 12} \cup (14..31)

RECURSIVE TrimStartUnits(_)
TrimStartUnits(units) ==
  IF units # <<>> /\ Head(units) = 32 THEN TrimStartUnits(Tail(units)) ELSE units

RECURSIVE TrimEndUnits(_)
TrimEndUnits(units) ==
  IF units # <<>> /\ units[Len(units)] = 32
    THEN TrimEndUnits(SubSeq(units, 1, Len(units) - 1)) ELSE units

(* String.prototype.trim() on code units *)
TrimUnits(units) == TrimEndUnits(TrimStartUnits(units))

(* !file || !passphrase (converter), !file || !key (answer sheets, upload) *)
MissingInformation(hasFile, passphrase) == ~hasFile \/ passphrase = <<>>

(* Mutant: the loader asks for no passphrase *)
LoaderPassphraseNotChecked(passphrase) == FALSE

(* !passphrase || passphrase.trim().length === 0 *)
LoaderPassphraseMissing(passphrase) ==
  passphrase = <<>> \/ Len(TrimUnits(passphrase)) = 0

(* Mutant: the busy flag is left as it is *)
ReleaseBusySkipped(flag) == flag

(* setIsProcessing(false), setIsSubmitting(false), setLoading(false) *)
ReleaseBusy(flag) == FALSE

(* The plain files a user gives a page: an empty file and the text "%" *)
PlainFiles == {<<>>, <<<<37>>>>}

(* The files a user can choose on a page: plain files, a container that *)
(* encryptFile returned, or its first SALT_SIZE bytes                   *)
HandlerFiles ==
  PlainFiles \cup
  UNION {{e.blob, Prefix(e.blob, SALT_SIZE)} : e \in encrypted}

DecryptHandlers == {"converter", "answerSheets", "uploadSubmit"}
LoadHandlers == {"loaderTry", "loaderDat", "loaderDatStore"}

(* A handler that got past its checks and awaits *)
UiRun(handler, operation, file, pass, pc) ==
  [handler |-> handler, operation |-> operation, pc |-> pc, busy |-> TRUE,
   file |-> file, pass |-> pass, toasts |-> <<>>, downloads |-> <<>>,
   error |-> ""]

(* A handler that returned before setting its busy flag *)
UiReturned(handler, operation, pass, toasts, error) ==
  [handler |-> handler, operation |-> operation, pc |-> "idle",
   busy |-> ui.busy, file |-> <<>>, pass |-> pass, toasts |-> toasts,
   downloads |-> <<>>, error |-> error]

(* The toast, or the setError text, of the checks before the busy flag *)
EarlyToasts(handler, hasFile) ==
  CASE handler = "converter" -> <<MissingInformationToast>>
    [] handler = "answerSheets" ->
         <<Toast("destructive", "Missing Information",
                 "Please select a file and provide the key.")>>
    [] handler = "uploadSubmit" ->
         <<Toast("destructive", "Missing Information",
                 "Please select a .dat file and enter the key.")>>
    [] handler = "loaderDatStore" ->
         <<Toast("destructive",
                 IF hasFile THEN "Please provide a passphrase."
                            ELSE "Please select a file to load.", "")>>
    [] OTHER -> <<>>

EarlyError(handler, hasFile) ==
  CASE handler \in {"loaderTry", "loaderDat"} /\ ~hasFile ->
         "Please select a file to load."
    [] handler = "loaderDat" /\ hasFile -> "Please provide a passphrase."
    [] OTHER -> ""

(* The checks a handler makes before it sets its busy flag: the loader of *)
(* tryDecrypt looks at the file only                                      *)
ReturnsEarly(handler, hasFile, passphrase) ==
  IF handler = "loaderTry" THEN ~hasFile
  ELSE MissingInformation(hasFile, passphrase)

(* A handler run that ends at its first checks *)
HandlerReturnsEarly(handler) ==
  /\ ui.pc = "idle"
  /\ \E hasFile \in BOOLEAN, passphrase \in HandlerPassphrases,
        operation \in IF handler = "converter" THEN {"encrypt", "decrypt"} ELSE {""} :
       /\ ReturnsEarly(handler, hasFile, passphrase)
       /\ ui' = UiReturned(handler, operation, passphrase,
                           EarlyToasts(handler, hasFile),
                           EarlyError(handler, hasFile))
  /\ UNCHANGED <<encrypted, rngDrawn, sealLog, page, quiz, calls>>

(* The converter's handleSubmit, operation 'encrypt', up to the await of *)
(* encryptFile                                                           *)
ConverterEncrypt(c) ==
  /\ ui.pc = "idle"
  /\ FreeSlot(c)
  /\ \E passphrase \in HandlerPassphrases :
       /\ ~MissingInformation(TRUE, passphrase)
       /\ StartEncrypt(c, PlainFiles, {passphrase})
       /\ ui' = UiRun("converter", "encrypt", <<>>, passphrase, "awaiting")
  /\ UNCHANGED <<encrypted, sealLog, page, quiz>>

(* handleSubmit (converter, upload) or handleLoadFile (answer sheets) up *)
(* to the await of decryptFile                                           *)
HandlerDecrypt(c, handler) ==
  /\ ui.pc = "idle"
  /\ FreeSlot(c)
  /\ \E file \in HandlerFiles, passphrase \in HandlerPassphrases :
       /\ ~MissingInformation(TRUE, passphrase)
       /\ StartDecrypt(c, {[file |-> file, pass |-> passphrase]})
       /\ ui' = UiRun(handler, IF handler = "converter" THEN "decrypt" ELSE "",
                      file, passphrase, "awaiting")
  /\ UNCHANGED <<encrypted, rngDrawn, sealLog, page, quiz>>

(* The test panel's handleSubmit up to the await of encryptFile, or to the *)
(* return after a cancelled or empty prompt                                *)
PanelSubmit(c) ==
  /\ ui.pc = "idle"
  /\ PanelShown
  /\ FreeSlot(c)
  /\ \E prompted \in {[cancelled |-> TRUE, text |-> <<>>]}
                     \cup {[cancelled |-> FALSE, text |-> p] : p \in HandlerPassphrases} :
       LET passphrase == prompted.text
       IN IF prompted.cancelled \/ passphrase = <<>>
            THEN /\ ui' = [UiRun("testPanel", "", <<>>, passphrase, "idle")
                             EXCEPT !.toasts = <<Toast("destructive", "Submission Canceled",
                                                     "You must provide a key to save your answers.")>>,
                                    !.busy = ReleaseBusy(TRUE)]
                 /\ UNCHANGED <<calls, rngDrawn>>
            ELSE /\ StartEncrypt(c, {SubmissionFile(quiz.answers)}, {passphrase})
                 /\ ui' = UiRun("testPanel", "", <<>>, passphrase, "awaiting")
  /\ UNCHANGED <<encrypted, sealLog, page, quiz>>

(* handleLoad up to the await of file.arrayBuffer() *)
LoadBegin(handler) ==
  /\ ui.pc = "idle"
  /\ \E file \in HandlerFiles, passphrase \in HandlerPassphrases :
       /\ ~ReturnsEarly(handler, TRUE, passphrase)
       /\ ui' = UiRun(handler, "", file, passphrase, "buffer")
  /\ UNCHANGED <<encrypted, rngDrawn, sealLog, page, quiz, calls>>

(* handleLoad after file.arrayBuffer(): the first loader shows a text file *)
(* as it is and asks for the passphrase of a binary one; then the await of *)
(* tryDecrypt or decryptDatFile                                            *)
LoadBufferResolved(c) ==
  /\ ui.pc = "buffer"
  /\ FreeSlot(c)
  /\ LET buffer == ui.file
         input == {[file |-> buffer, pass |-> ui.pass]}
     IN IF ui.handler = "loaderTry"
          THEN IF ~looksBinaryText(buffer)
                 THEN /\ ui' = [ui EXCEPT !.busy = ReleaseBusy(@), !.pc = "idle"]
                      /\ UNCHANGED calls
               ELSE IF LoaderPassphraseMissing(ui.pass)
                 THEN /\ ui' = [ui EXCEPT
                                  !.error = "File looks binary/encrypted. Provide the passphrase/key to decrypt.",
                                  !.busy = ReleaseBusy(@), !.pc = "idle"]
                      /\ UNCHANGED calls
               ELSE /\ StartTryDecrypt(c, input)
                    /\ ui' = [ui EXCEPT !.pc = "awaiting"]
          ELSE /\ StartDecryptDat(c, input)
               /\ ui' = [ui EXCEPT !.pc = "awaiting"]
  /\ UNCHANGED <<encrypted, rngDrawn, sealLog, page, quiz>>

(* err?.message || String(err), error.message || the handler's own text *)
ErrorDescription(message, fallback) == IF message = "" THEN fallback ELSE message

(* What a handler does with the plaintext once its await resolved: ok, or *)
(* the message of what the rest of the try block throws. XLSX.read either *)
(* reads a sheet or throws (parsed)                                       *)
AfterAwait(handler, content, parsed) ==
  CASE handler \in {"answerSheets", "uploadSubmit"} ->
         IF JsonParses(content) THEN [ok |-> TRUE, message |-> ""]
                                ELSE [ok |-> FALSE, message |-> "Unexpected token"]
    [] handler \in {"loaderDat", "loaderDatStore"} ->
         IF parsed THEN [ok |-> TRUE, message |-> ""]
                   ELSE [ok |-> FALSE, message |-> "Unsupported file"]
    [] OTHER -> [ok |-> TRUE, message |-> ""]

(* The toast of the try block's end, or of the catch block *)
HandlerToasts(handler, operation, ok, message) ==
  CASE handler = "converter" -> SubmitToasts(operation, ok, message)
    [] handler = "testPanel" ->
         IF ok THEN <<Toast("default", "Test Submitted!",
                            "Your answers have been saved.")>>
               ELSE <<Toast("destructive", "Submission Failed",
                            ErrorDescription(message,
                              "There was an error submitting your answers."))>>
    [] handler = "answerSheets" ->
         IF ok THEN <<Toast("default", "Success!", "Answer sheet loaded.")>>
               ELSE <<Toast("destructive", "Failed to Load Answers",
                            ErrorDescription(message, "Check the file and key."))>>
    [] handler = "uploadSubmit" ->
         IF ok THEN <<Toast("default", "Success!",
                            "Quiz data loaded. Redirecting to the preview page.")>>
               ELSE <<Toast("destructive", "Upload Failed",
                            ErrorDescription(message,
                              "Could not load the quiz. Check the file and key."))>>
    [] handler = "loaderTry" ->
         IF ok THEN <<Toast("default", "Success!", "File processed successfully.")>>
               ELSE <<Toast("destructive", "Processing Failed",
                            ErrorDescription(message, "Error"))>>
    [] handler = "loaderDat" ->
         IF ok THEN <<Toast("default", "Success!",
                            "File decrypted and preview loaded.")>>
               ELSE <<Toast("destructive", "Decryption Failed",
                            ErrorDescription(message, "Error"))>>
    [] handler = "loaderDatStore" ->
         IF ok THEN <<Toast("default", "Success!",
                            "File decrypted. Redirecting to preview.")>>
               ELSE <<Toast("destructive", "Decryption Failed",
                            ErrorDescription(message, "Error"))>>

(* downloadBlob in the converter and in the test panel *)
HandlerDownloads(handler, ok, resultBlob) ==
  IF handler \in {"converter", "testPanel"} THEN SubmitDownloads(ok, resultBlob)
  ELSE <<>>

(* Mutant: the quiz is removed and the page left in the finally block *)
HandlerStoresAlways(handler, ok) ==
  [quiz EXCEPT !.storage = NoData, !.route = "/answer-sheets", !.pc = "mount"]

(* sessionStorage and the route after a handler's try block went through *)
HandlerStores(handler, ok) ==
  IF ~ok THEN quiz
  ELSE CASE handler = "testPanel" ->
              [quiz EXCEPT !.storage = NoData, !.route = "/answer-sheets",
                           !.pc = "mount"]
         [] handler = "uploadSubmit" ->
              [quiz EXCEPT !.storage = PlainObject, !.route = "/preview",
                           !.pc = "mount"]
         [] handler = "loaderDatStore" ->
              [quiz EXCEPT !.storage = SheetArray(<<<<"Question", "options ", "correctAnswer">>,
                                                    <<"Q", "a, b", "a">>>>),
                           !.route = "/preview",
                           !.pc = "mount"]
         [] OTHER -> quiz

(* A handler after its await: the rest of the try block, or the catch *)
(* block; then the finally block                                      *)
HandlerSettled(c) ==
  /\ ui.pc = "awaiting"
  /\ Settle(c)
  /\ \E parsed \in BOOLEAN :
       LET after == IF calls[c].pc = "done"
                      THEN AfterAwait(ui.handler, calls[c].result, parsed)
                      ELSE [ok |-> FALSE, message |-> calls[c].error]
       IN /\ ui' = [ui EXCEPT
                      !.toasts = HandlerToasts(ui.handler, ui.operation,
                                               after.ok, after.message),
                      !.downloads = HandlerDownloads(ui.handler, after.ok,
                                                     calls[c].result),
                      !.error = IF ui.handler \in {"loaderTry", "loaderDat"}
                                  THEN after.message ELSE "",
                      !.busy = ReleaseBusy(@),
                      !.pc = "idle"]
          /\ quiz' = HandlerStores(ui.handler, after.ok)
  /\ UNCHANGED page

(* The promise a handler awaits moves on *)
Continue(c) ==
  \/ ImportKeyResolved(c)
  \/ DeriveKeyResolved(c)
  \/ EncBufferResolved(c)
  \/ EncCipherResolved(c)
  \/ EncCipherRejected(c)
  \/ DecBufferResolved(c)
  \/ DecCipherResolved(c)
  \/ TryDeriveKeyResolved(c)
  \/ TryCipherResolved(c)
  \/ DatDeriveKeyResolved(c)
  \/ DatCipherResolved(c)

(* The test panel with a quiz of n questions loaded and some answered *)
PanelLoaded(n, answers) ==
  [QuizIdle EXCEPT !.storage = QuizObject([i \in 1..n |-> SampleQuestion]),
                   !.quizData = QuizObject([i \in 1..n |-> SampleQuestion]),
                   !.route = "/test-panel", !.answers = answers]

InitHandlers ==
  /\ calls = [c \in Callers |-> Idle]
  /\ encrypted = {}
  /\ rngDrawn = {}
  /\ sealLog = {}
  /\ page = PageIdle
  /\ ui = UiIdle
  /\ quiz = PanelLoaded(1, {[key |-> 0, value |-> "A"]})

(* The pages are given one container to work on *)
FirstEncrypt(c) == encrypted = {} /\ (ConverterEncrypt(c) \/ PanelSubmit(c))

NextHandlers ==
  \/ \E handler \in DecryptHandlers \cup LoadHandlers : HandlerReturnsEarly(handler)
  \/ \E handler \in LoadHandlers : LoadBegin(handler)
  \/ \E c \in Callers :
       \/ FirstEncrypt(c)
       \/ \E handler \in DecryptHandlers : HandlerDecrypt(c, handler)
       \/ LoadBufferResolved(c)
       \/ Continue(c)
       \/ HandlerSettled(c)

(* A pending promise settles and its continuation runs *)
SpecHandlers ==
  /\ InitHandlers
  /\ [][NextHandlers]_vars
  /\ WF_vars(\E c \in Callers : LoadBufferResolved(c) \/ Continue(c) \/ HandlerSettled(c))

(* The test panel's submission alone, from any loaded quiz *)
InitSubmit ==
  /\ calls = [c \in Callers |-> Idle]
  /\ encrypted = {}
  /\ rngDrawn = {}
  /\ sealLog = {}
  /\ page = PageIdle
  /\ ui = UiIdle
  /\ \E n \in 1..MaxQuestions : \E answers \in AnswerSets(n) :
       quiz = PanelLoaded(n, answers)

NextSubmit ==
  \E c \in Callers :
    \/ PanelSubmit(c)
    \/ ImportKeyResolved(c)
    \/ DeriveKeyResolved(c)
    \/ EncBufferResolved(c)
    \/ EncCipherResolved(c)
    \/ EncCipherRejected(c)
    \/ HandlerSettled(c)

SpecSubmit == InitSubmit /\ [][NextSubmit]_vars

----------------------------------------------------------------------------
(* Properties *)

Settled(c) == calls[c].pc \in {"done", "failed"}

DecSettled(c) == calls[c].op = "dec" /\ Settled(c)

EncDone(c) == calls[c].op = "enc" /\ calls[c].pc = "done"

Differing(a, b) == {i \in 1..Len(a) : a[i] # b[i]}

SingleAlteration(a, b) == Len(a) = Len(b) /\ Cardinality(Differing(a, b)) = 1

ProperPrefix(a, b) == Len(a) < Len(b) /\ a = SubSeq(b, 1, Len(a))

(* C1: decryptFile applied to the container encryptFile(m, p) returned, with *)
(* the same non-empty passphrase p, succeeds and returns exactly m.          *)
C1_RoundTrip ==
  \A c \in Callers : \A e \in encrypted :
    (DecSettled(c) /\ calls[c].file = e.blob /\ calls[c].pass = e.pass
       /\ e.pass # <<>>)
      => (calls[c].pc = "done" /\ calls[c].result = e.file)

C1_Witness ==
  \E c \in Callers : \E e \in encrypted :
    /\ DecSettled(c) /\ calls[c].file = e.blob /\ calls[c].pass = e.pass
    /\ e.pass # <<>> /\ Len(e.file) >= 1
    /\ calls[c].pc = "done" /\ calls[c].result = e.file

C3_TamperDetected ==
  \A c \in Callers : \A e \in encrypted :
    (DecSettled(c) /\ calls[c].pass = e.pass
       /\ SingleAlteration(calls[c].file, e.blob))
      => (calls[c].pc = "failed" /\ calls[c].error = DecryptionFailedMsg
            /\ calls[c].result = <<>>)

C3_Witness ==
  \E c \in Callers : \E e \in encrypted :
    /\ DecSettled(c) /\ calls[c].pass = e.pass
    /\ Len(e.file) >= 1
    /\ SingleAlteration(calls[c].file, e.blob)
    /\ Differing(calls[c].file, e.blob) = {SALT_SIZE + IV_SIZE + 1}
    /\ calls[c].pc = "failed"

(* C4 as stated: a buffer shorter than 44 bytes fails with the too-short      *)
(* (invalid format) error, decided before any key derivation.                 *)
C4_TooShortRejected ==
  \A c \in Callers :
    (DecSettled(c) /\ Len(calls[c].file) < 44)
      => (calls[c].pc = "failed" /\ calls[c].error = InvalidFormatMsg
            /\ calls[c].kdfCalls = 0)

(* C5: the container encryptFile returns is len(m) + 44 bytes long.           *)
C5_LengthInvariant ==
  /\ \A c \in Callers :
       EncDone(c) => Len(calls[c].result) = Len(calls[c].file) + 44
  /\ \A e \in encrypted : Len(e.blob) = Len(e.file) + 44

C5_Witness ==
  \E c \in Callers :
    EncDone(c) /\ Len(calls[c].file) >= 1 /\ Len(calls[c].result) = Len(calls[c].file) + 44

(* C6: the container is the salt drawn for the call (bytes 0..15), the nonce  *)
(* drawn for the call (bytes 16..27) and the cipher's output, ciphertext then *)
(* tag (bytes 28..end), and nothing else.                                     *)
C6_ContainerLayout ==
  \A c \in Callers :
    EncDone(c) =>
      LET r == calls[c].result
          out == calls[c].content
      IN /\ Len(calls[c].salt) = 16 /\ calls[c].salt \in rngDrawn
         /\ Len(calls[c].iv) = 12 /\ calls[c].iv \in rngDrawn
         /\ out = AesGcmEncrypt(calls[c].key, calls[c].iv, calls[c].file)
         /\ Len(r) = 16 + 12 + Len(out)
         /\ \A i \in 1..16 : r[i] = calls[c].salt[i]
         /\ \A i \in 1..12 : r[16 + i] = calls[c].iv[i]
         /\ \A i \in 1..Len(out) : r[28 + i] = out[i]

C6_Witness ==
  \E c \in Callers :
    /\ EncDone(c) /\ Len(calls[c].file) >= 1
    /\ Len(calls[c].result) = 28 + Len(calls[c].content)
    /\ calls[c].result[1] = calls[c].salt[1]
    /\ calls[c].result[17] = calls[c].iv[1]
    /\ calls[c].result[29] = calls[c].content[1]

(* C7: decryptFile takes the salt from bytes[0:16], the nonce from            *)
(* bytes[16:28], hands bytes[28:] unchanged to the cipher, and derives the    *)
(* key from the supplied passphrase and the embedded salt.                    *)
C7_ContainerParsing ==
  \A c \in Callers :
    (calls[c].op = "dec" /\ calls[c].kdfCalls >= 1) =>
      LET b == calls[c].file
          a == calls[c].cipherArgs
      IN /\ Len(b) >= 28
         /\ calls[c].salt = [i \in 1..16 |-> b[i]]
         /\ calls[c].iv = [i \in 1..12 |-> b[16 + i]]
         /\ calls[c].content = [i \in 1..(Len(b) - 28) |-> b[28 + i]]
         /\ calls[c].cipherCalls >= 1 =>
              /\ a.data = [i \in 1..(Len(b) - 28) |-> b[28 + i]]
              /\ a.iv = [i \in 1..12 |-> b[16 + i]]
              /\ a.key.pw = TextEncoderEncode(calls[c].pass)
              /\ a.key.salt = [i \in 1..16 |-> b[i]]

C7_Witness ==
  \E c \in Callers :
    /\ calls[c].op = "dec" /\ calls[c].cipherCalls >= 1
    /\ Len(calls[c].file) > 44
    /\ calls[c].cipherArgs.data = SubSeq(calls[c].file, 29, Len(calls[c].file))
    /\ calls[c].cipherArgs.key.salt = SubSeq(calls[c].file, 1, 16)

(* C8: two encryptFile calls with the same plaintext and passphrase return    *)
(* different containers, and each of them decrypts to the plaintext.          *)
SameInput(e, f) == e.file = f.file /\ e.pass = f.pass

C8_DistinctContainers ==
  /\ \A c \in Callers : \A e \in encrypted :
       (EncDone(c) /\ SameInput(e, calls[c])) => e.blob # calls[c].result
  /\ \A c \in Callers : \A e \in encrypted :
       (DecSettled(c) /\ calls[c].file = e.blob /\ calls[c].pass = e.pass
          /\ \E f \in encrypted : f # e /\ SameInput(e, f))
         => (calls[c].pc = "done" /\ calls[c].result = e.file)

C8_Witness ==
  \E c \in Callers : \E e \in encrypted : \E f \in encrypted :
    /\ f # e /\ SameInput(e, f) /\ Len(e.file) >= 1
    /\ DecSettled(c) /\ calls[c].file = e.blob /\ calls[c].pass = e.pass
    /\ calls[c].pc = "done" /\ calls[c].result = e.file

(* C9: no two encryptFile calls seal under the same (key, nonce) pair; each   *)
(* call's salt and nonce are newly drawn, never those of an earlier call.     *)
C9_NonceUnique ==
  \A c \in Callers : \A s \in sealLog :
    (calls[c].op = "enc") =>
      /\ calls[c].salt # s.key.salt
      /\ calls[c].iv # s.iv
      /\ calls[c].cipherCalls >= 1 =>
           [key |-> calls[c].cipherArgs.key, iv |-> calls[c].cipherArgs.iv] # s

C9_Witness ==
  \E c \in Callers : \E s \in sealLog :
    /\ calls[c].op = "enc" /\ calls[c].cipherCalls >= 1
    /\ calls[c].cipherArgs.key.pw = s.key.pw
    /\ [key |-> calls[c].cipherArgs.key, iv |-> calls[c].cipherArgs.iv] # s

(* C10: a wrong passphrase and a corrupted or tampered container make         *)
(* decryptFile signal the same error, with the same message.                  *)
WrongPassphraseCase(c) ==
  \E e \in encrypted :
    calls[c].file = e.blob /\ TextEncoderEncode(calls[c].pass) # TextEncoderEncode(e.pass)

CorruptedCase(c) ==
  \E e \in encrypted :
    /\ calls[c].pass = e.pass
    /\ SingleAlteration(calls[c].file, e.blob) \/ ProperPrefix(calls[c].file, e.blob)

C10_SameFailure ==
  \A c \in Callers :
    (DecSettled(c) /\ (WrongPassphraseCase(c) \/ CorruptedCase(c)))
      => (calls[c].pc = "failed" /\ calls[c].error = DecryptionFailedMsg)

C10_Witness ==
  \E c \in Callers :
    /\ DecSettled(c) /\ CorruptedCase(c) /\ Len(calls[c].file) < SALT_SIZE
    /\ calls[c].pc = "failed" /\ calls[c].error = DecryptionFailedMsg

(* C11: a decryptFile call ends in exactly one of two ways: it returns the    *)
(* plaintext, and then the tag of the container verified under the key and    *)
(* nonce the cipher was given, or it fails with an error and no plaintext.    *)
(* No plaintext is held before the cipher has verified the tag.               *)
C11_NoPlaintextOnFailure ==
  \A c \in Callers :
    calls[c].op = "dec" =>
      /\ calls[c].pc # "done" => calls[c].result = <<>>
      /\ calls[c].pc = "failed" => calls[c].error # ""
      /\ calls[c].pc = "done" =>
           LET b == calls[c].file
               a == calls[c].cipherArgs
               n == Len(b) - 44
               ct == [i \in 1..n |-> b[28 + i]]
           IN /\ n >= 0
              /\ calls[c].error = ""
              /\ calls[c].cipherCalls = 1
              /\ \A j \in 1..16 : b[28 + n + j] = <<j, a.key, a.iv, ct>>
              /\ Len(calls[c].result) = n

C11_Witness ==
  \E c \in Callers :
    /\ DecSettled(c) /\ Len(calls[c].file) >= 45
    /\ calls[c].cipherCalls = 1
    /\ calls[c].pc = "failed" /\ calls[c].error # "" /\ calls[c].result = <<>>

(* C12: the 44-byte container encryptFile returns for the empty buffer is     *)
(* decrypted, with the passphrase it was encrypted with, to the empty         *)
(* plaintext.                                                                 *)
C12_EmptyPlaintextAccepted ==
  \A c \in Callers : \A e \in encrypted :
    (DecSettled(c) /\ e.file = <<>> /\ calls[c].file = e.blob
       /\ calls[c].pass = e.pass)
      => (Len(calls[c].file) = 44 /\ calls[c].pc = "done"
            /\ calls[c].error = "" /\ calls[c].result = <<>>)

C12_Witness ==
  \E c \in Callers : \E e \in encrypted :
    /\ DecSettled(c) /\ e.file = <<>> /\ calls[c].file = e.blob
    /\ calls[c].pass = e.pass /\ e.pass # <<>>
    /\ Len(calls[c].file) = 44 /\ calls[c].pc = "done" /\ calls[c].result = <<>>

C17_NoSecretEcho ==
  \A c \in Callers :
    /\ (calls[c].op = "dec" /\ calls[c].pc = "failed") =>
         /\ calls[c].error = DecryptionFailedMsg
         /\ calls[c].logged =
              <<IF Len(calls[c].file) < SALT_SIZE + IV_SIZE
                  THEN InvalidFormatMsg ELSE OperationError>>
    /\ calls[c].pc # "failed" => (calls[c].logged = <<>> /\ calls[c].error = "")

C17_Witness ==
  \E c \in Callers : \E e \in encrypted :
    /\ calls[c].op = "dec" /\ calls[c].pc = "failed"
    /\ calls[c].file = e.blob /\ calls[c].pass # e.pass /\ calls[c].pass # <<>>
    /\ calls[c].error = DecryptionFailedMsg
    /\ calls[c].logged = <<OperationError>>

(* C18: every byte of the container encryptFile returns is a byte of the salt *)
(* drawn, of the nonce drawn, or of the cipher's output; none is a byte of    *)
(* the key, and the salt and nonce are values of the random source.  A call   *)
(* that has returned holds no key.                                            *)
C18_KeyStaysOut ==
  /\ \A c \in Callers :
       EncDone(c) =>
         LET r == calls[c].result
             out == AesGcmEncrypt(calls[c].key, calls[c].iv, calls[c].file)
             keyBytes == {ExportKey(calls[c].key)[j] : j \in 1..(KEY_LENGTH \div 8)}
         IN /\ calls[c].salt \in RandomValues(SALT_SIZE)
            /\ calls[c].iv \in RandomValues(IV_SIZE)
            /\ \A i \in 1..Len(r) :
                 /\ r[i] \notin keyBytes
                 /\ \/ i <= 16 /\ r[i] = calls[c].salt[i]
                    \/ i > 16 /\ i <= 28 /\ r[i] = calls[c].iv[i - 16]
                    \/ i > 28 /\ i - 28 <= Len(out) /\ r[i] = out[i - 28]
  /\ \A c \in Callers :
       calls[c].pc = "idle" => (calls[c].key = NoKey /\ calls[c].cipherArgs = NoArgs)
  /\ \A e \in encrypted : \A i \in 1..Len(e.blob) : Len(e.blob[i]) # 2

C18_Witness ==
  \E c \in Callers :
    /\ EncDone(c) /\ calls[c].pass # <<>> /\ Len(calls[c].file) >= 1
    /\ calls[c].key # NoKey
    /\ Len(calls[c].result) = Len(calls[c].file) + 44
    /\ \A i \in 1..Len(calls[c].result) : Len(calls[c].result[i]) # 2

(* C13: whichever routine derived it (encryptFile, decryptFile, tryDecrypt,   *)
(* decryptDatFile), the key a call holds is the one every copy of deriveKey   *)
(* gives for the call's passphrase and salt: PBKDF2 of the passphrase's UTF-8 *)
(* bytes with SHA-256, 100000 iterations and 256 bits; a decrypting call      *)
(* whose passphrase bytes and salt are those of an encryption holds the key   *)
(* the encryption used.                                                       *)
C13_SameKeyDerivation ==
  \A c \in Callers :
    calls[c].key # NoKey =>
      LET k == calls[c].key
          p == calls[c].pass
          s == calls[c].salt
      IN /\ k = [pw |-> TextEncoderEncode(p), salt |-> s, iterations |-> 100000,
                 hash |-> "SHA-256", length |-> 256]
         /\ deriveKey(p, s) = k
         /\ deriveKeyLoader(p, s) = k
         /\ deriveKeyDat(p, s) = k
         /\ deriveKeyDat2(p, s) = k
         /\ \A e \in sealLog :
              (e.key.pw = k.pw /\ e.key.salt = k.salt) => e.key = k

C13_Witness ==
  \E c \in Callers : \E e \in sealLog :
    /\ calls[c].op = "try" /\ calls[c].pc = "done"
    /\ calls[c].pass # <<>>
    /\ calls[c].key = e.key

(* C20: for an input of at least 45 bytes decryptDatFile hands the cipher the *)
(* input's bytes from offset 28 to the end, in order, with the nonce of bytes *)
(* 16..27 and the key of the passphrase and the salt of bytes 0..15: the      *)
(* arguments decryptFile gives the cipher for the same input; and it ends as  *)
(* decryptFile's cipher call does on them.                                    *)
C20_DatSplitIdentity ==
  \A c \in Callers :
    (calls[c].op = "dat" /\ Len(calls[c].file) >= 45) =>
      LET b == calls[c].file
          a == calls[c].cipherArgs
          r == DecCipher(deriveKey(calls[c].pass, DecSalt(b)), DecIv(b), DecContent(b))
      IN /\ calls[c].kdfCalls = 1
         /\ calls[c].cipherCalls >= 1 =>
              /\ a.data = [i \in 1..(Len(b) - 28) |-> b[28 + i]]
              /\ a.iv = [i \in 1..12 |-> b[16 + i]]
              /\ a.key.salt = [i \in 1..16 |-> b[i]]
              /\ a.data = DecContent(b) /\ a.iv = DecIv(b)
              /\ a.key = deriveKey(calls[c].pass, DecSalt(b))
         /\ Settled(c) =>
              /\ (calls[c].pc = "done") = r.ok
              /\ calls[c].result = r.data

C20_Witness ==
  \E c \in Callers : \E e \in encrypted :
    /\ calls[c].op = "dat" /\ calls[c].file = e.blob /\ Len(e.blob) >= 45
    /\ calls[c].pass = e.pass /\ e.pass # <<>>
    /\ calls[c].cipherArgs.data = SubSeq(e.blob, 29, Len(e.blob))
    /\ calls[c].pc = "done" /\ calls[c].result = e.file

(* What a call running alone returns for its inputs and its own draws *)
AloneEncrypt(file, pass, salt, iv) ==
  salt \o iv \o AesGcmEncrypt(deriveKey(pass, salt), iv, file)

AloneDecrypt(file, pass) ==
  IF Len(file) < 28
    THEN [ok |-> FALSE, data |-> <<>>]
    ELSE AesGcmDecrypt(deriveKey(pass, SubSeq(file, 1, 16)), SubSeq(file, 17, 28),
                       SubSeq(file, 29, Len(file)))

(* C14: with several encryptFile and decryptFile calls in flight and their    *)
(* steps interleaved in any order, each call ends as it would have alone on   *)
(* its inputs and its own draws; the key and the cipher arguments a call      *)
(* holds are its own, and two encryptions in flight share no salt or nonce.   *)
C14_ConcurrentIndependence ==
  /\ \A c \in Callers :
       /\ EncDone(c) =>
            calls[c].result =
              AloneEncrypt(calls[c].file, calls[c].pass, calls[c].salt, calls[c].iv)
       /\ DecSettled(c) =>
            LET r == AloneDecrypt(calls[c].file, calls[c].pass)
            IN /\ (calls[c].pc = "done") = r.ok
               /\ calls[c].result = r.data
               /\ calls[c].pc = "failed" => calls[c].error = DecryptionFailedMsg
       /\ calls[c].key # NoKey => calls[c].key = deriveKey(calls[c].pass, calls[c].salt)
       /\ calls[c].cipherCalls >= 1 =>
            /\ calls[c].cipherArgs.key = calls[c].key
            /\ calls[c].cipherArgs.iv = calls[c].iv
  /\ \A c, d \in Callers :
       (c # d /\ calls[c].op = "enc" /\ calls[d].op = "enc")
         => (calls[c].salt # calls[d].salt /\ calls[c].iv # calls[d].iv)

C14_Witness ==
  /\ EncDone(1) /\ EncDone(2)
  /\ calls[1].pass # calls[2].pass
  /\ calls[1].result # calls[2].result
  /\ calls[1].result =
       AloneEncrypt(calls[1].file, calls[1].pass, calls[1].salt, calls[1].iv)

C21_LoaderInteroperability ==
  \A c \in Callers : \A e \in encrypted :
    (calls[c].op \in {"try", "dat"} /\ Settled(c) /\ calls[c].file = e.blob
       /\ calls[c].pass = e.pass /\ e.pass # <<>>)
      => (calls[c].pc = "done" /\ calls[c].result = e.file)

(* C22: however decryptFile fails, on a buffer too short for salt and nonce   *)
(* (where it threw 'Invalid file format' itself) or in the cipher, the error  *)
(* the caller gets is the one 'Decryption failed' message; the 'Invalid file  *)
(* format' message reaches only the console.                                  *)
C22_SingleFailureOutcome ==
  \A c \in Callers :
    (calls[c].op = "dec" /\ calls[c].pc = "failed") =>
      /\ calls[c].error = DecryptionFailedMsg
      /\ calls[c].error # InvalidFormatMsg
      /\ calls[c].result = <<>>
      /\ Len(calls[c].file) < 28 =>
           (calls[c].logged = <<InvalidFormatMsg>> /\ calls[c].cipherCalls = 0)
      /\ Len(calls[c].file) >= 28 => calls[c].cipherCalls = 1

C22_Witness ==
  \E c \in Callers :
    /\ calls[c].op = "dec" /\ calls[c].pc = "failed"
    /\ Len(calls[c].file) = 27
    /\ calls[c].logged = <<InvalidFormatMsg>>
    /\ calls[c].error = DecryptionFailedMsg

(* C23: encryptFile, decryptFile, tryDecrypt and decryptDatFile call          *)
(* deriveKey only with a salt of exactly 16 bytes, for the decrypting ones    *)
(* the first 16 bytes of the input; an input shorter than 28 bytes never      *)
(* reaches deriveKey and the call on it fails.                                *)
C23_SaltWellFormed ==
  \A c \in Callers :
    /\ calls[c].kdfCalls >= 1 =>
         /\ Len(calls[c].salt) = 16
         /\ calls[c].op \in {"dec", "try", "dat"} =>
              (Len(calls[c].file) >= 28 /\ calls[c].salt = SubSeq(calls[c].file, 1, 16))
    /\ calls[c].key # NoKey => Len(calls[c].key.salt) = 16
    /\ (calls[c].op \in {"dec", "try", "dat"} /\ Len(calls[c].file) < 28) =>
         /\ calls[c].kdfCalls = 0
         /\ calls[c].pc \in {"buffer", "failed"}

C23_Witness ==
  \E c \in Callers :
    /\ calls[c].op = "dec" /\ Len(calls[c].file) = 27
    /\ calls[c].pc = "failed" /\ calls[c].kdfCalls = 0

(* C24: decryptFile, given a proper prefix of a container encryptFile         *)
(* returned (down to the empty buffer) and the passphrase it was encrypted    *)
(* with, fails and returns no plaintext.                                      *)
C24_TruncationDetected ==
  \A c \in Callers : \A e \in encrypted :
    (DecSettled(c) /\ calls[c].pass = e.pass /\ ProperPrefix(calls[c].file, e.blob))
      => (calls[c].pc = "failed" /\ calls[c].result = <<>> /\ calls[c].error # "")

C24_Witness ==
  \E c \in Callers : \E e \in encrypted :
    /\ DecSettled(c) /\ calls[c].pass = e.pass /\ e.pass # <<>>
    /\ Len(e.file) >= 1
    /\ ProperPrefix(calls[c].file, e.blob) /\ Len(calls[c].file) = Len(e.blob) - 1
    /\ calls[c].pc = "failed" /\ calls[c].cipherCalls = 1 /\ calls[c].result = <<>>

(* C27: once a quiz with n >= 1 questions is loaded in the test panel, after *)
(* any sequence of handleNext, handlePrev and handleAnswerChange events the  *)
(* state's currentQuestionIndex, and the one of the render on screen, are    *)
(* between 0 and n-1, and every key of answers is an index in that range     *)
C27_IndexInRange ==
  (quiz.quizData # NoData /\ Len(quiz.quizData.questions) >= 1) =>
    LET n == Len(quiz.quizData.questions)
    IN /\ quiz.index \in 0..(n - 1)
       /\ quiz.shown \in 0..(n - 1)
       /\ \A a \in quiz.answers : a.key \in 0..(n - 1)

(* A loaded quiz of several questions, stepped to its last question, with *)
(* answers recorded for the first and the last question                   *)
C27_Witness ==
  /\ quiz.quizData # NoData
  /\ LET n == Len(quiz.quizData.questions)
     IN /\ n >= 2
        /\ quiz.index = n - 1 /\ quiz.shown = n - 1
        /\ \E a \in quiz.answers : a.key = n - 1
        /\ \E a \in quiz.answers : a.key = 0

(* C28: whenever the preview page's handleStartTest has navigated to       *)
(* /test-panel, 'quizData' in sessionStorage is an object with a non-empty *)
(* 'questions' array, and the test panel never shows the 'Invalid quiz     *)
(* data format' failure                                                    *)
C28_PreviewHandsAcceptedData ==
  /\ quiz.route = "/test-panel" => PanelAccepts(quiz.storage)
  /\ \A i \in 1..Len(quiz.toasts) : quiz.toasts[i] # InvalidQuizMsg

(* C25: a page handler reaches encryptFile, decryptFile, tryDecrypt or      *)
(* decryptDatFile only with a non-empty passphrase; a handler run with an   *)
(* empty passphrase awaits no such call and no key derivation is performed  *)
C25_NoEmptyPassphraseCall ==
  /\ \A c \in Callers : calls[c].op # "none" => calls[c].pass # <<>>
  /\ (ui.handler # "none" /\ ui.pass = <<>>) =>
       /\ ui.pc # "awaiting"
       /\ \A c \in Callers : calls[c].op = "none" /\ calls[c].kdfCalls = 0

(* The first loader was given a container and no passphrase: it read the *)
(* file, asked for the passphrase and returned                            *)
C25_Witness ==
  /\ ui.handler = "loaderTry" /\ ui.pc = "idle"
  /\ ui.pass = <<>>
  /\ \E e \in encrypted : ui.file = e.blob
  /\ ui.error = "File looks binary/encrypted. Provide the passphrase/key to decrypt."
  /\ \A c \in Callers : calls[c].op = "none"

(* C26: every step of the test panel's submission leaves the recorded      *)
(* answers as they are; a step that removes 'quizData' or leaves the page  *)
(* is the one that takes a resolved encryptFile call, downloads its Blob,  *)
(* removes 'quizData' and goes to /answer-sheets; and a step that ends the *)
(* handler on a cancelled or empty prompt or on a failed encryptFile       *)
(* downloads nothing, starts no call and leaves sessionStorage, the        *)
(* answers and the route as they are                                       *)
C26_QuizKeptUntilSaved ==
  [][ /\ quiz'.answers = quiz.answers
      /\ (quiz'.storage # quiz.storage \/ quiz'.route # quiz.route) =>
           \E c \in Callers :
             /\ calls[c].op = "enc" /\ calls[c].pc = "done"
             /\ ui.pc = "awaiting" /\ ui'.pc = "idle"
             /\ ui'.downloads = <<calls[c].result>>
             /\ quiz'.storage = NoData /\ quiz'.route = "/answer-sheets"
      /\ (ui'.pc = "idle" /\ ui' # ui
            /\ ui'.toasts[1].title \in {"Submission Canceled", "Submission Failed"}) =>
           /\ ui'.downloads = <<>>
           /\ encrypted' = encrypted
           /\ \A c \in Callers : calls'[c].op = "none"
           /\ quiz' = quiz
    ]_vars

(* encryptFile failed during a submission with answers recorded: the quiz *)
(* is still stored, the test panel still shown, nothing downloaded        *)
C26_Witness ==
  /\ ui.handler = "testPanel" /\ ui.pc = "idle"
  /\ ui.toasts = <<Toast("destructive", "Submission Failed", OperationError)>>
  /\ ui.downloads = <<>>
  /\ quiz.storage = quiz.quizData /\ quiz.storage # NoData
  /\ quiz.route = "/test-panel"
  /\ quiz.answers # {}
  /\ encrypted = {}

(* C29: a handler that set its busy flag sets it back to false, and the *)
(* flag is never true once the handler has finished                     *)
C29_BusyReleased ==
  /\ [](ui.pc = "idle" => ~ui.busy)
  /\ (ui.busy ~> ~ui.busy)

(* The answer-sheets handler finished after decryptFile failed, the flag *)
(* released                                                              *)
C29_Witness ==
  /\ ui.handler = "answerSheets" /\ ui.pc = "idle"
  /\ ui.toasts = <<Toast("destructive", "Failed to Load Answers", DecryptionFailedMsg)>>
  /\ ~ui.busy

====
